---- MODULE Spec2Model ----
(***************************************************************************)
(* jsks/bf: the Brainfuck interpreter bf.c (parse to an IR, run the IR)     *)
(* and the libjit compiler jit.c, as state machines.                        *)
(*                                                                          *)
(* A source is a sequence of characters; "c" stands for any byte that is    *)
(* not one of the eight Brainfuck tokens, and the end of the sequence is    *)
(* the terminating NUL of the C string.  Program positions (jump            *)
(* arguments, the bracket stack, the cursor p) are 0-based as in the C      *)
(* code, so ops[k] of the code is program.ops[k + 1] here.                  *)
(***************************************************************************)
EXTENDS Integers, Sequences, FiniteSets, TLC

\* ------------------------------------------------------------------ bounds
\* Every source of at most MaxLen characters is explored.
MaxLen == 4
\* stdin holds at most MaxIn bytes before its end of file.
MaxIn == 1
\* A run is followed until it has written MaxOut bytes.
MaxOut == 2
\* A run is followed while the data pointer stays at or below MaxPtr.
MaxPtr == 4
\* Every source of at most MaxRefLen characters is compared with the reference.
MaxRefLen == 3
\* Every source of at most MaxAotLen characters is compiled by aot.
MaxAotLen == 3
\* A byte an uninitialised cell may hold.
Garbage == 7

\* ------------------------------------------------------- program constants
TAPE_SIZE == 30000
STACK_SIZE == 256
PROGRAM_SIZE == 1024
EXIT_FAILURE == 1
EOF == -1
INT8_MAX == 127
INT8_MIN == -128
\* bf.c's MAX_FILE_SIZE; jit.c and aot.c define their own.
MAX_FILE_SIZE == 8 * 1024 * 1024
JIT_MAX_FILE_SIZE == 1024 * 1024
READ_SIZE == 1024 * 8

NUL == "NUL"
Tokens == {"+", "-", ">", "<", ".", ",", "[", "]"}
Alphabet == Tokens \cup {"c"}

\* ----------------------------------------------------------------- sources
Rep(ch, n) == [k \in 1..n |-> ch]

Nest(d, body) == Rep("[", d) \o body \o Rep("]", d)

ShortSources == UNION {[1..n -> Alphabet] : n \in 0..MaxLen}

\* The scan-loop scenario: +++>+++>+++<<[>]+.
ScanProgram ==
  Rep("+", 3) \o <<">">> \o Rep("+", 3) \o <<">">> \o Rep("+", 3)
    \o <<"<", "<", "[", ">", "]", "+", ".">>

\* The literal inputs of the specification's boundary cases and scenarios.
ScenarioSources ==
  { ScanProgram,
    <<"-", ".">>,
    <<"[", "[", "]">>,
    <<"[", "-", "]", "-", "-">>,
    <<">", "[", "-", "]", "<">>,
    <<">", ">", ">", "+", "<", "<", "<">>,
    <<"[", "c", "-", "]">>,
    <<"[", "-", "c", "]">>,
    <<",", "[", ".", ",", "]">>,
    <<"+", "[", "-", ">", "+", "<", "]", ">", ".">> }

\* Loops nested around the depth of the bracket stack.
DeepSources ==
  { Nest(d, b) : d \in {STACK_SIZE - 1, STACK_SIZE, STACK_SIZE + 1},
                 b \in { <<"+">>, <<"[", "-", "]">>, <<"[", ">", "]">> } }
  \cup { Rep("[", STACK_SIZE + 1) }

\* Runs of '+' and of '-' around the bounds of a cell, each followed by '.'.
LongRuns ==
  { Rep(ch, n) \o <<".">> :
      ch \in {"+", "-"},
      n \in {INT8_MAX - 1, INT8_MAX, INT8_MAX + 1, INT8_MAX + 2, 256, 257} }

Sources == ShortSources \cup ScenarioSources \cup DeepSources \cup LongRuns

\* The sources aot is run on.
AotSources ==
  UNION {[1..n -> Alphabet] : n \in 0..MaxAotLen}
    \cup ScenarioSources \cup DeepSources \cup LongRuns

\* Bytes stdin may hold.
InBytes == {0, 97}

\* The sizes a read returning less than READ_SIZE bytes may have.
ShortReads == {READ_SIZE - 1}

\* ------------------------------------------------------------------- state
VARIABLES
  source,      \* the NUL-terminated buffer read_file returned
  s,           \* parse: the cursor (index of the next character)
  prev_token,  \* parse: the previous significant token, 0 at the start
  offset,      \* parse: the pending pointer delta
  program,     \* program_t: [ops: sequence of op, len: capacity]
  jmp_stack,   \* parse: the bracket stack (lifo)
  origin,      \* history: for each op, the source index of the token that emitted it
  pc,          \* where the process is
  err,         \* the errx message, "" if none
  exit_code,   \* the process's exit status, -1 while it runs
  strict,      \* whether the build defines _BF_STRICT_CHECKS
  trapped,     \* history: a strict check's condition was met in a non-strict run
  tape,        \* run: the non-zero cells of tape[TAPE_SIZE]
  i,           \* run: the data pointer
  p,           \* run: the instruction cursor
  output,      \* the bytes written to stdout
  stdin,       \* the bytes of stdin known so far
  stdin_eof,   \* whether stdin is known to end after them
  rd,          \* how many bytes of stdin this process has consumed
  jit_pc,      \* jit: where the process is, "idle" before it is started
  jit_s,       \* compile_bf: the cursor (index of the next character)
  repeated,    \* compile_bf: how many equal tokens precede the current one
  fn,          \* compile_bf: the instructions emitted into the function
  jit_stack,   \* compile_bf: the label stack (lifo of jmp_pair)
  jit_err,     \* jit: the errx message, "" if none
  jit_exit,    \* jit: the process's exit status, -1 while it runs
  jit_tape,    \* jit: the non-zero cells of uint8_t tape[TAPE_SIZE]
  jit_ptr,     \* jit: the function's tape pointer, as an index into tape
  jit_ip,      \* jit: the instruction the function is at
  jit_output,  \* jit: the bytes written to stdout
  jit_rd,      \* jit: how many bytes of stdin this process has consumed
  file_mode,   \* read_file: which program reads the file
  file_size,   \* read_file: the size of the file in bytes
  rf_pc,       \* read_file: where it is, "idle" when no file is being read
  len,         \* read_file: the bytes read so far
  past,        \* read_file: whether a byte was stored beyond the buffer
  rf_err,      \* read_file: the errx message, "" if none
  aot_pc,      \* aot: where the process is, "idle" when aot is not run
  interpret,   \* aot: whether -e was given (run in process, no executable)
  aot_s,       \* gen_instructions: the cursor (index of the next character)
  blocks,      \* gen_instructions: the blocks created in the function
  current_block, \* gen_instructions: the block statements are added to
  aot_stack,   \* gen_instructions: the stack of (loop_cond, loop_end) pairs
  misuse,      \* history: a terminated block was added to or terminated again
  aot_err,     \* aot: the errx message, "" if none
  aot_exit,    \* aot: the exit status of the process that runs the program
  aot_tape,    \* aot: the non-zero cells of the tape array
  aot_base,    \* aot: the index of the tape cell the function's argument points at
  index,       \* aot: the generated function's local index
  aot_at,      \* aot: the block and statement the generated function is at
  aot_output,  \* aot: the bytes written to stdout
  aot_rd,      \* aot: how many bytes of stdin the program has consumed
  first,       \* reference: which of bf and the reference is run first, or "none"
  ref_pc,      \* reference: where it is, "idle" when it is not run
  ref_ip,      \* reference: the index of the source token it is at
  ref_tape,    \* reference: the non-zero cells of its tape
  ref_ptr,     \* reference: its data pointer
  ref_output,  \* reference: the bytes it has written
  ref_rd       \* reference: how many bytes of stdin it has consumed

\* What the interpreter process owns; stdin is shared with the jit process.
bfown == <<source, s, prev_token, offset, program, jmp_stack, origin, pc, err,
           exit_code, strict, trapped, tape, i, p, output, rd>>

bfvars == <<bfown, stdin, stdin_eof>>

jitvars == <<jit_pc, jit_s, repeated, fn, jit_stack, jit_err, jit_exit, jit_tape,
             jit_ptr, jit_ip, jit_output, jit_rd>>

filevars == <<file_mode, file_size, rf_pc, len, past, rf_err>>

genvars == <<aot_s, blocks, current_block, aot_stack, misuse>>

aotrunvars == <<aot_tape, aot_base, index, aot_at, aot_output, aot_rd>>

aotvars == <<aot_pc, interpret, genvars, aot_err, aot_exit, aotrunvars>>

refrunvars == <<ref_ip, ref_tape, ref_ptr, ref_output, ref_rd>>

refvars == <<first, ref_pc, refrunvars>>

\* ------------------------------------------------------------- program_t
Op(code, arg, off) == [code |-> code, arg |-> arg, offset |-> off]

init_program(capacity) == [ops |-> <<>>, len |-> capacity]

resize_program(prog) == [prog EXCEPT !.len = 2 * prog.len]

add_op(prog, code, arg, off) ==
  LET q == IF Len(prog.ops) = prog.len THEN resize_program(prog) ELSE prog
  IN  [q EXCEPT !.ops = Append(q.ops, Op(code, arg, off))]

pop_op(prog) ==
  IF Len(prog.ops) > 0
    THEN [prog EXCEPT !.ops = SubSeq(prog.ops, 1, Len(prog.ops) - 1)]
    ELSE prog

\* last_op(program) - program->ops, or -1 where last_op returns NULL.
last_op(prog) == Len(prog.ops) - 1

OpAt(prog, k) == prog.ops[k + 1]

is_valid_token(ch) == ch \in Tokens

is_repeatable_token(ch) == ch \in {"+", "-"}

\* *s: the character at index k, the NUL once past the text.
CharAt(src, k) == IF k \in 1..Len(src) THEN src[k] ELSE NUL

\* peek(s): the index of the first token after index k, 0 for NULL.
RECURSIVE peek(_, _)
peek(src, k) ==
  LET ch == CharAt(src, k + 1)
  IN  IF ch = NUL THEN 0
      ELSE IF ~is_valid_token(ch) THEN peek(src, k + 1)
      ELSE k + 1

IS_EMPTY_STACK(stack) == Len(stack) = 0

StackTop(stack) == stack[Len(stack)]

StackPop(stack) == SubSeq(stack, 1, Len(stack) - 1)

StackFullOffByOne(stack) == Len(stack) = STACK_SIZE + 1

\* if (stack.len == STACK_SIZE)
StackFull(stack) == Len(stack) = STACK_SIZE

\* ------------------------------------------------------------------- parse
\* The locals of parse as one record; status is "parsing" inside the loop,
\* "ok" once parse returned, "error" after errx, "ub" after a NULL dereference.
ParseInit ==
  [ s |-> 1, prev_token |-> NUL, offset |-> 0,
    program |-> init_program(PROGRAM_SIZE), jmp_stack |-> <<>>,
    origin |-> <<>>, status |-> "parsing", err |-> "" ]

Fail(st, msg) == [st EXCEPT !.status = "error", !.err = msg]

Emit(st, code, arg, off, k) ==
  [st EXCEPT !.program = add_op(@, code, arg, off), !.origin = Append(@, k)]

PUSH_STACK(st, x) ==
  IF StackFull(st.jmp_stack)
    THEN Fail(st, "Nested loops exceeded stack size")
    ELSE [st EXCEPT !.jmp_stack = Append(@, x)]

IncLastArgLost(prog) == prog

\* last_op(program)->arg++ of the run-length branch.
IncLastArg(prog) ==
  [prog EXCEPT !.ops[Len(prog.ops)].arg = @ + 1]

ParseRepeat(st) ==
  IF last_op(st.program) < 0
    THEN [st EXCEPT !.status = "ub"]
    ELSE [st EXCEPT !.program = IncLastArg(@)]

CaseMinus(st, k) == Emit(st, "MINUS", 1, st.offset, k)

CasePlus(st, k) == Emit(st, "ADD", 1, st.offset, k)

CaseLeft(st) == [st EXCEPT !.offset = @ - 1]

CaseRight(st) == [st EXCEPT !.offset = @ + 1]

CasePut(st, k) == Emit(st, "PUT", 0, st.offset, k)

CaseRead(st, k) == Emit(st, "READ", 0, st.offset, k)

\* The test of the '[' case, the cursor standing one past the '[' at index k.
IsClearCell(src, k) ==
  /\ CharAt(src, k + 1) = "-"
  /\ peek(src, k + 1) # 0
  /\ CharAt(src, peek(src, k + 1)) = "]"

CaseOpen(src, st, k) ==
  IF IsClearCell(src, k)
    THEN [Emit(st, "ZERO", 0, st.offset, k) EXCEPT !.s = peek(src, k + 1) + 1]
    ELSE LET e == Emit(st, "JMP_FWD", 0, st.offset, k)
         IN  PUSH_STACK(e, last_op(e.program))

FwdTargetPastBck(prog) == last_op(prog) + 2

\* The argument back-patched into the JMP_FWD: last_op(program) - program->ops + 1.
FwdTarget(prog) == last_op(prog) + 1

BckTargetBefore(jmp_pos) == jmp_pos - 1

\* The argument given to the JMP_BCK.
BckTarget(jmp_pos) == jmp_pos

ScanLoopKept(st) == st

ScanOpSwapped(off, start_pos) == Op("ZEROSEEK", start_pos, off)

\* The ZEROSEEK that replaces a JMP_FWD: add_op(program, ZEROSEEK, offset, start_pos).
ScanOp(off, start_pos) == Op("ZEROSEEK", off, start_pos)

ScanLoop(st) ==
  LET start_pos == OpAt(st.program, last_op(st.program)).offset
      q == pop_op(st.program)
      z == ScanOp(st.offset, start_pos)
  IN  [st EXCEPT !.program = add_op(q, z.code, z.arg, z.offset)]

LinkLoop(st, jmp_pos, k) ==
  LET q == [st.program EXCEPT !.ops[jmp_pos + 1].arg = FwdTarget(st.program)]
  IN  Emit([st EXCEPT !.program = q], "JMP_BCK", BckTarget(jmp_pos), st.offset, k)

\* Whether the ']' case stops with the missing-opening-bracket error.
CloseUnmatched(stack) == IS_EMPTY_STACK(stack)

CaseClose(st, k) ==
  IF CloseUnmatched(st.jmp_stack)
    THEN Fail(st, "Missing opening '['")
    ELSE LET jmp_pos == StackTop(st.jmp_stack)
             st1 == [st EXCEPT !.jmp_stack = StackPop(@)]
         IN  IF /\ last_op(st.program) >= 0
                /\ OpAt(st.program, last_op(st.program)).code = "JMP_FWD"
               THEN ScanLoop(st1)
               ELSE LinkLoop(st1, jmp_pos, k)

ParseSwitch(src, st, ch, k) ==
  CASE ch = "-" -> CaseMinus(st, k)
    [] ch = "+" -> CasePlus(st, k)
    [] ch = "<" -> CaseLeft(st)
    [] ch = ">" -> CaseRight(st)
    [] ch = "." -> CasePut(st, k)
    [] ch = "," -> CaseRead(st, k)
    [] ch = "[" -> CaseOpen(src, st, k)
    [] ch = "]" -> CaseClose(st, k)
    [] OTHER -> st

ResetOffsetNever(ch, off) == off

\* if (ch != '>' && ch != '<') offset = 0;
ResetOffset(ch, off) == IF ch # ">" /\ ch # "<" THEN 0 ELSE off

ParseEndKeepingOffset(st) ==
  IF ~IS_EMPTY_STACK(st.jmp_stack)
    THEN Fail(st, "Missing closing ']'")
    ELSE [Emit(st, "END", 0, st.offset, 0) EXCEPT !.status = "ok"]

ParseEndUnchecked(st) == [Emit(st, "END", 0, 0, 0) EXCEPT !.status = "ok"]

\* After the loop: the missing-closing-bracket test and the END op.
ParseEnd(st) ==
  IF ~IS_EMPTY_STACK(st.jmp_stack)
    THEN Fail(st, "Missing closing ']'")
    ELSE [Emit(st, "END", 0, 0, 0) EXCEPT !.status = "ok"]

SetPrevTokenOfRuns(st, ch) ==
  IF is_repeatable_token(ch) THEN [st EXCEPT !.prev_token = ch] ELSE st

\* prev_token = ch; of the branch that is not the run-length branch.
SetPrevToken(st, ch) == [st EXCEPT !.prev_token = ch]

\* One iteration of while ((ch = *s++)), or the code after the loop.
ParseStep(src, st) ==
  LET k == st.s
      ch == CharAt(src, k)
      st0 == [st EXCEPT !.s = k + 1]
  IN  IF ch = NUL THEN ParseEnd(st0)
      ELSE IF ~is_valid_token(ch) THEN st0
      ELSE IF ch = st.prev_token /\ is_repeatable_token(ch) THEN ParseRepeat(st0)
      ELSE LET st1 == SetPrevToken(st0, ch)
               st2 == ParseSwitch(src, st1, ch, k)
           IN  IF st2.status = "parsing"
                 THEN [st2 EXCEPT !.offset = ResetOffset(ch, @)]
                 ELSE st2

\* parse(s) as a function of the source: the record parse ends with.
RECURSIVE ParseFrom(_, _)
ParseFrom(src, st) ==
  IF st.status # "parsing" THEN st ELSE ParseFrom(src, ParseStep(src, st))

ParseAll(src) == ParseFrom(src, ParseInit)

\* --------------------------------------------------------------------- run
ToInt8Clamped(x) ==
  IF x > INT8_MAX THEN INT8_MAX ELSE IF x < INT8_MIN THEN INT8_MIN ELSE x

\* The conversion of an int to int8_t: modulo 256 into [-128, 127].
ToInt8(x) == LET m == x % 256 IN IF m > INT8_MAX THEN m - 256 ELSE m

\* putchar writes its argument converted to unsigned char.
ToUChar(x) == x % 256

Cell(t, j) == IF j \in DOMAIN t THEN t[j] ELSE 0

Store(t, j, v) ==
  IF v = 0
    THEN [x \in DOMAIN t \ {j} |-> t[x]]
    ELSE [x \in DOMAIN t \cup {j} |-> IF x = j THEN v ELSE t[x]]

ZeroTape == [x \in {} |-> 0]

BoundsTrapAboveOnly(j) == j >= TAPE_SIZE

\* The conditions of the strict build's macros.
BoundsTrap(j) == j < 0 \/ j >= TAPE_SIZE

OverflowTrap(v, x) == v >= INT8_MAX - x

UnderflowTrap(v, x) == v <= INT8_MIN + x

ReadCellZeroAtEof(c) == IF c = EOF THEN 0 ELSE ToInt8(c)

\* tape[i] = getchar(): the int is converted to int8_t.
ReadCell(c) == ToInt8(c)

\* getchar() by a process that has consumed n bytes of stdin, of which `bytes`
\* are known so far and `ended` tells whether the end of file follows them:
\* the results it may have, each with what is known of stdin afterwards.  A
\* byte not yet known is any of InBytes, or the end of file; stdin holds at
\* most MaxIn bytes; at the end of file getchar returns EOF again and again.
GetChar(bytes, ended, n) ==
  IF n < Len(bytes)
    THEN { [c |-> bytes[n + 1], bytes |-> bytes, ended |-> ended, n |-> n + 1] }
  ELSE IF ended
    THEN { [c |-> EOF, bytes |-> bytes, ended |-> TRUE, n |-> n] }
  ELSE { [c |-> EOF, bytes |-> bytes, ended |-> TRUE, n |-> n] }
       \cup IF Len(bytes) >= MaxIn THEN {}
            ELSE { [c |-> b, bytes |-> Append(bytes, b), ended |-> FALSE, n |-> n + 1] :
                   b \in InBytes }

\* ----------------------------------------------------------------- actions
parsevars == <<s, prev_token, offset, program, jmp_stack, origin>>
runvars == <<tape, i, p, output, stdin, stdin_eof, rd, trapped>>

InitBf ==
  /\ source \in Sources
  /\ s = ParseInit.s
  /\ prev_token = ParseInit.prev_token
  /\ offset = ParseInit.offset
  /\ program = ParseInit.program
  /\ jmp_stack = ParseInit.jmp_stack
  /\ origin = ParseInit.origin
  /\ pc = "parse"
  /\ err = ""
  /\ exit_code = -1
  /\ trapped = FALSE
  /\ tape = ZeroTape
  /\ i = 0
  /\ p = 0
  /\ output = <<>>
  /\ stdin = <<>>
  /\ stdin_eof = FALSE
  /\ rd = 0

ParseState ==
  [ s |-> s, prev_token |-> prev_token, offset |-> offset, program |-> program,
    jmp_stack |-> jmp_stack, origin |-> origin, status |-> "parsing", err |-> "" ]

\* main's call of parse, one loop iteration at a time; errx ends the process.
Parse ==
  /\ pc = "parse"
  /\ LET n == ParseStep(source, ParseState)
     IN  /\ s' = n.s
         /\ prev_token' = n.prev_token
         /\ offset' = n.offset
         /\ program' = n.program
         /\ jmp_stack' = n.jmp_stack
         /\ origin' = n.origin
         /\ err' = n.err
         /\ pc' = CASE n.status = "parsing" -> "parse"
                    [] n.status = "ok" -> "parsed"
                    [] n.status = "error" -> "exit"
                    [] OTHER -> "ub"
         /\ exit_code' = IF n.status = "error" THEN EXIT_FAILURE ELSE exit_code
  /\ UNCHANGED <<source, strict, runvars, jitvars, filevars, aotvars, refvars>>

\* main calls run: int8_t tape[TAPE_SIZE] = { 0 }, i = 0, p = program->ops.
CallRun ==
  /\ pc = "parsed"
  /\ pc' = "run"
  /\ tape' = ZeroTape
  /\ i' = 0
  /\ p' = 0
  /\ UNCHANGED <<source, parsevars, err, exit_code, strict, output, stdin, stdin_eof, rd,
                 trapped, jitvars, filevars, aotvars, refvars>>

\* errx(EXIT_FAILURE, msg) inside run.
Errx(msg, j) ==
  /\ pc' = "exit"
  /\ err' = msg
  /\ exit_code' = EXIT_FAILURE
  /\ i' = j
  /\ UNCHANGED <<source, parsevars, strict, tape, p, output, stdin, stdin_eof, rd,
                 trapped, jitvars, filevars, aotvars, refvars>>

\* A step of run that goes on: the new tape, pointer, cursor and streams.
Go(pc1, tape1, j, p1, out1, in1, tr1) ==
  /\ pc' = pc1
  /\ tape' = tape1
  /\ i' = j
  /\ p' = p1
  /\ output' = out1
  /\ stdin' = in1.bytes
  /\ stdin_eof' = in1.ended
  /\ rd' = in1.n
  /\ trapped' = tr1
  /\ UNCHANGED <<source, parsevars, strict, err, exit_code, jitvars, filevars, aotvars,
                 refvars>>

\* stdin as this process leaves it when it does not read.
In == [bytes |-> stdin, ended |-> stdin_eof, n |-> rd]

\* The tape is indexed outside tape[0 .. TAPE_SIZE - 1] in a build without the
\* strict checks: undefined behaviour.
Undefined(j) == Go("ub", tape, j, p, output, In, trapped)

\* The exploration stops: a bound of the model is reached.
Cut(j) == Go("cut", tape, j, p, output, In, trapped)

JumpToSkipping(arg) == arg + 1

\* The cursor after a taken JMP_FWD or JMP_BCK: p = &program->ops[p->arg].
JumpTo(arg) == arg

\* The switch of run for op at data pointer j; the for loop's p++ follows.
Exec(op, j) ==
  LET v == Cell(tape, j)
  IN  CASE op.code = "ZERO" ->
             Go("run", Store(tape, j, 0), j, p + 1, output, In, trapped)
        [] op.code = "ZEROSEEK" ->
             Go("seek", tape, j, p, output, In, trapped)
        [] op.code = "ADD" ->
             IF strict /\ OverflowTrap(v, op.arg)
               THEN Errx("Integer overflow", j)
               ELSE Go("run", Store(tape, j, ToInt8(v + op.arg)), j, p + 1, output,
                       In, trapped \/ OverflowTrap(v, op.arg))
        [] op.code = "MINUS" ->
             IF strict /\ UnderflowTrap(v, op.arg)
               THEN Errx("Integer underflow", j)
               ELSE Go("run", Store(tape, j, ToInt8(v - op.arg)), j, p + 1, output,
                       In, trapped \/ UnderflowTrap(v, op.arg))
        [] op.code = "READ" ->
             \E g \in GetChar(stdin, stdin_eof, rd) :
               Go("run", Store(tape, j, ReadCell(g.c)), j, p + 1, output, g, trapped)
        [] op.code = "PUT" ->
             IF Len(output) >= MaxOut
               THEN Cut(j)
               ELSE Go("run", tape, j, p + 1, Append(output, ToUChar(v)), In, trapped)
        [] op.code = "JMP_FWD" ->
             Go("run", tape, j, (IF v = 0 THEN JumpTo(op.arg) ELSE p) + 1, output,
                In, trapped)
        [] op.code = "JMP_BCK" ->
             Go("run", tape, j, (IF v # 0 THEN JumpTo(op.arg) ELSE p) + 1, output,
                In, trapped)

\* One iteration of run's for loop; at END run returns and main returns 0.
Run ==
  /\ pc = "run"
  /\ IF p < 0 \/ p >= Len(program.ops)
       THEN Undefined(i)
       ELSE LET op == OpAt(program, p)
                j == i + op.offset
            IN  IF op.code = "END"
                  THEN /\ pc' = "exit"
                       /\ exit_code' = 0
                       /\ UNCHANGED <<source, parsevars, strict, err, runvars, jitvars,
                                      filevars, aotvars, refvars>>
                  ELSE IF strict /\ BoundsTrap(j)
                    THEN Errx("Out-of-bounds memory access", j)
                  ELSE IF BoundsTrap(j) THEN Undefined(j)
                  ELSE IF j > MaxPtr THEN Cut(j)
                  ELSE Exec(op, j)

\* One test of ZEROSEEK's while (tape[i] != 0), and its body when it holds.
Seek ==
  /\ pc = "seek"
  /\ LET op == OpAt(program, p)
         j == i + op.arg
     IN  IF Cell(tape, i) = 0
           THEN Go("run", tape, i, p + 1, output, In, trapped)
           ELSE IF strict /\ BoundsTrap(j)
             THEN Errx("Out-of-bounds memory access", j)
           ELSE IF BoundsTrap(j) THEN Undefined(j)
           ELSE IF j > MaxPtr THEN Cut(j)
           ELSE Go("seek", tape, j, p, output, In, trapped)

\* --------------------------------------------------------------- jit: compile
\* jit.c's is_repeatable_token: the moves are run-length encoded too.
jit_is_repeatable_token(ch) == ch \in {"+", "-", ">", "<"}

\* OP_ARG(fn, x): the constant 1 + x.  The sum or difference of a cell and
\* the constant is converted to ubyte before it is stored, and a run of moves
\* is far shorter than 255 tokens in every source explored, so the width of
\* the constant does not show.
OP_ARG(x) == 1 + x

\* One emitted instruction group.  A branch's arg is the index (0-based) of the
\* instruction its label stands at, -1 while the label is jit_label_undefined.
Insn(code, arg) == [code |-> code, arg |-> arg]

InsnAt(f, k) == f[k + 1]

\* The locals of compile_bf as one record; status is "compiling" inside the
\* loop, "ok" once it returned, "error" after errx.
CompileInit ==
  [ s |-> 1, repeated |-> 0, fn |-> <<>>, stack |-> <<>>,
    status |-> "compiling", err |-> "" ]

EmitInsn(st, code, arg) == [st EXCEPT !.fn = Append(@, Insn(code, arg))]

\* ADD_JMP, then the start label, the load of the cell and branch_if_not to
\* the end label.  The stack holds the index of the start label.
JitOpen(src, st, k) ==
  IF IsClearCell(src, k)
    THEN [EmitInsn(st, "store_zero", 0) EXCEPT !.s = peek(src, k + 1) + 1]
  ELSE IF StackFull(st.stack)
    THEN Fail(st, "Nested loops exceeded stack size")
  ELSE [EmitInsn(st, "branch_if_not", -1) EXCEPT !.stack = Append(@, Len(st.fn))]

\* branch_if to the start label, the end label after it, POP_JMP.
JitClose(st) ==
  IF IS_EMPTY_STACK(st.stack)
    THEN Fail(st, "Missing opening '['")
    ELSE LET start == StackTop(st.stack)
             e == EmitInsn(st, "branch_if", start)
         IN  [e EXCEPT !.fn[start + 1].arg = Len(e.fn), !.stack = StackPop(@)]

CompileSwitch(src, st, ch, k) ==
  CASE ch = ">" -> EmitInsn(st, "add_ptr", OP_ARG(st.repeated))
    [] ch = "<" -> EmitInsn(st, "sub_ptr", OP_ARG(st.repeated))
    [] ch = "+" -> EmitInsn(st, "add_cell", OP_ARG(st.repeated))
    [] ch = "-" -> EmitInsn(st, "sub_cell", OP_ARG(st.repeated))
    [] ch = "." -> EmitInsn(st, "putchar", 0)
    [] ch = "," -> EmitInsn(st, "getchar", 0)
    [] ch = "[" -> JitOpen(src, st, k)
    [] ch = "]" -> JitClose(st)
    [] OTHER -> st

\* After the loop: the missing-closing-bracket test and jit_insn_return.
CompileEnd(st) ==
  IF ~IS_EMPTY_STACK(st.stack)
    THEN Fail(st, "Missing closing ']'")
    ELSE [EmitInsn(st, "return", 0) EXCEPT !.status = "ok"]

\* One iteration of compile_bf's while ((ch = *s++)), or the code after it.
CompileStep(src, st) ==
  LET k == st.s
      ch == CharAt(src, k)
      st0 == [st EXCEPT !.s = k + 1]
  IN  IF ch = NUL THEN CompileEnd(st0)
      ELSE IF ~is_valid_token(ch) THEN st0
      ELSE IF ch = CharAt(src, k + 1) /\ jit_is_repeatable_token(ch)
        THEN [st0 EXCEPT !.repeated = @ + 1]
      ELSE LET st1 == CompileSwitch(src, st0, ch, k)
           IN  IF st1.status = "compiling" THEN [st1 EXCEPT !.repeated = 0] ELSE st1

\* ------------------------------------------------------------------- jit: run
\* The bytes jit_insn_store_relative writes for a value of type int: the four
\* bytes of its two's complement, least significant first (amd64); \div
\* rounds down, so that it shifts a negative value arithmetically.
IntBytes(c) == [k \in 0..3 |-> (c \div (256 ^ k)) % 256]

RECURSIVE StoreBytes(_, _, _, _)
StoreBytes(t, j, bytes, k) ==
  IF k > 3 THEN t ELSE StoreBytes(Store(t, j + k, bytes[k]), j, bytes, k + 1)

\* The store of getchar's result at the tape pointer.
StoreInt(t, j, c) == StoreBytes(t, j, IntBytes(c), 0)

JitIdle ==
  /\ jit_pc = "idle"
  /\ jit_s = CompileInit.s
  /\ repeated = CompileInit.repeated
  /\ fn = CompileInit.fn
  /\ jit_stack = CompileInit.stack
  /\ jit_err = ""
  /\ jit_exit = -1
  /\ jit_tape = ZeroTape
  /\ jit_ptr = 0
  /\ jit_ip = 0
  /\ jit_output = <<>>
  /\ jit_rd = 0

compilevars == <<jit_s, repeated, fn, jit_stack>>
jitrunvars == <<jit_tape, jit_ptr, jit_ip, jit_output, jit_rd>>

\* jit is started on the file and the stdin the interpreter was run on, once
\* the interpreter has exited.
JitMain ==
  /\ jit_pc = "idle"
  /\ pc = "exit"
  /\ jit_pc' = "compile"
  /\ UNCHANGED <<bfvars, compilevars, jit_err, jit_exit, jitrunvars, filevars, aotvars,
                 refvars>>

CompileState ==
  [ s |-> jit_s, repeated |-> repeated, fn |-> fn, stack |-> jit_stack,
    status |-> "compiling", err |-> "" ]

\* main's call of compile_bf, one loop iteration at a time.
JitCompile ==
  /\ jit_pc = "compile"
  /\ LET n == CompileStep(source, CompileState)
     IN  /\ jit_s' = n.s
         /\ repeated' = n.repeated
         /\ fn' = n.fn
         /\ jit_stack' = n.stack
         /\ jit_err' = n.err
         /\ jit_pc' = CASE n.status = "compiling" -> "compile"
                        [] n.status = "ok" -> "compiled"
                        [] OTHER -> "exit"
         /\ jit_exit' = IF n.status = "error" THEN EXIT_FAILURE ELSE jit_exit
  /\ UNCHANGED <<bfvars, jitrunvars, filevars, aotvars, refvars>>

\* uint8_t tape[TAPE_SIZE] = { 0 }; fn(tape);
JitCall ==
  /\ jit_pc = "compiled"
  /\ jit_pc' = "run"
  /\ jit_tape' = ZeroTape
  /\ jit_ptr' = 0
  /\ jit_ip' = 0
  /\ UNCHANGED <<bfvars, compilevars, jit_err, jit_exit, jit_output, jit_rd, filevars,
                 aotvars, refvars>>

\* A step of the generated function: the new tape, pointer, cursor and streams.
JitGo(pc1, tape1, ptr1, ip1, out1, in1) ==
  /\ jit_pc' = pc1
  /\ jit_tape' = tape1
  /\ jit_ptr' = ptr1
  /\ jit_ip' = ip1
  /\ jit_output' = out1
  /\ stdin' = in1.bytes
  /\ stdin_eof' = in1.ended
  /\ jit_rd' = in1.n
  /\ UNCHANGED <<bfown, compilevars, jit_err, jit_exit, filevars, aotvars, refvars>>

JitIn == [bytes |-> stdin, ended |-> stdin_eof, n |-> jit_rd]

\* An instruction that loads or stores `width` bytes at the tape pointer: outside
\* tape[0 .. TAPE_SIZE - 1] the access is undefined behaviour.
JitAccess(width, step) ==
  IF jit_ptr < 0 \/ jit_ptr + width > TAPE_SIZE
    THEN JitGo("ub", jit_tape, jit_ptr, jit_ip, jit_output, JitIn)
  ELSE IF jit_ptr > MaxPtr
    THEN JitGo("cut", jit_tape, jit_ptr, jit_ip, jit_output, JitIn)
  ELSE step

\* One instruction group of the generated function.
JitRun ==
  /\ jit_pc = "run"
  /\ LET ins == InsnAt(fn, jit_ip)
         v == Cell(jit_tape, jit_ptr)
     IN  CASE ins.code = "return" ->
                /\ jit_pc' = "exit"
                /\ jit_exit' = 0
                /\ UNCHANGED <<bfvars, compilevars, jit_err, jitrunvars, filevars, aotvars, refvars>>
           [] ins.code = "add_ptr" ->
                JitGo("run", jit_tape, jit_ptr + ins.arg, jit_ip + 1, jit_output, JitIn)
           [] ins.code = "sub_ptr" ->
                JitGo("run", jit_tape, jit_ptr - ins.arg, jit_ip + 1, jit_output, JitIn)
           [] ins.code = "add_cell" ->
                JitAccess(1, JitGo("run", Store(jit_tape, jit_ptr, ToUChar(v + ins.arg)),
                                   jit_ptr, jit_ip + 1, jit_output, JitIn))
           [] ins.code = "sub_cell" ->
                JitAccess(1, JitGo("run", Store(jit_tape, jit_ptr, ToUChar(v - ins.arg)),
                                   jit_ptr, jit_ip + 1, jit_output, JitIn))
           [] ins.code = "store_zero" ->
                JitAccess(1, JitGo("run", Store(jit_tape, jit_ptr, 0), jit_ptr,
                                   jit_ip + 1, jit_output, JitIn))
           [] ins.code = "putchar" ->
                JitAccess(1, IF Len(jit_output) >= MaxOut
                               THEN JitGo("cut", jit_tape, jit_ptr, jit_ip, jit_output,
                                          JitIn)
                               ELSE JitGo("run", jit_tape, jit_ptr, jit_ip + 1,
                                          Append(jit_output, ToUChar(v)), JitIn))
           [] ins.code = "getchar" ->
                \E g \in GetChar(stdin, stdin_eof, jit_rd) :
                  JitAccess(4, JitGo("run", StoreInt(jit_tape, jit_ptr, g.c), jit_ptr,
                                     jit_ip + 1, jit_output, g))
           [] ins.code = "branch_if_not" ->
                JitAccess(1, JitGo("run", jit_tape, jit_ptr,
                                   IF v = 0 THEN ins.arg ELSE jit_ip + 1, jit_output,
                                   JitIn))
           [] ins.code = "branch_if" ->
                JitAccess(1, JitGo("run", jit_tape, jit_ptr,
                                   IF v # 0 THEN ins.arg ELSE jit_ip + 1, jit_output,
                                   JitIn))

\* --------------------------------------------------------------- read_file
\* The limit of each program, and the buffer read_file stores into: bf mallocs
\* fsize + 1 bytes, jit and aot are handed char buffer[MAX_FILE_SIZE].
SizeLimit(mode) == IF mode = "bf" THEN MAX_FILE_SIZE ELSE JIT_MAX_FILE_SIZE

FileModes == {"bf", "jit", "aot"}

\* File sizes around each program's limit.
FileSizes(mode) ==
  { 0, 1, READ_SIZE, SizeLimit(mode) - 1, SizeLimit(mode), SizeLimit(mode) + 1,
    SizeLimit(mode) + READ_SIZE, 2 * SizeLimit(mode) }

Min(a, b) == IF a < b THEN a ELSE b

\* What read(fd, buf, READ_SIZE) may return with `left` bytes of the file
\* ahead: 0 at the end of the file, else a full chunk or a short one.
ReadResults(left) ==
  IF left = 0 THEN {0}
  ELSE { Min(left, READ_SIZE) } \cup { n \in ShortReads : n < left }

FileIdle ==
  /\ file_mode = "none"
  /\ file_size = 0
  /\ rf_pc = "idle"
  /\ len = 0
  /\ past = FALSE
  /\ rf_err = ""

ReadLimitError == "File exceeds read limits"

\* bf.c read_file up to fopen: stat, the size test, malloc(fsize + 1).
BfStat ==
  /\ rf_pc = "start"
  /\ file_mode = "bf"
  /\ IF file_size > MAX_FILE_SIZE
       THEN rf_pc' = "exit" /\ rf_err' = ReadLimitError
       ELSE rf_pc' = "fread" /\ rf_err' = rf_err
  /\ UNCHANGED <<bfvars, jitvars, file_mode, file_size, len, past, aotvars, refvars>>

\* bf.c read_file from fread on: at most fsize bytes are stored, then the NUL
\* at buffer[len], inside the fsize + 1 bytes.
BfFread ==
  /\ rf_pc = "fread"
  /\ len' = file_size
  /\ past' = (len' + 1 > file_size + 1)
  /\ rf_pc' = "done"
  /\ UNCHANGED <<bfvars, jitvars, file_mode, file_size, rf_err, aotvars, refvars>>

\* The test made after each read of jit.c and aot.c.
JitLimitHit(n) == n = JIT_MAX_FILE_SIZE - 1

\* One iteration of the read loop of jit.c and aot.c: read stores at
\* buffer + len; storing beyond buffer[MAX_FILE_SIZE - 1] is undefined behaviour.
JitRead ==
  /\ rf_pc = "start"
  /\ file_mode \in {"jit", "aot"}
  /\ \E bytes_read \in ReadResults(file_size - len) :
       IF bytes_read = 0
         THEN /\ rf_pc' = "done"
              /\ UNCHANGED <<len, past, rf_err>>
       ELSE IF len + bytes_read > JIT_MAX_FILE_SIZE
         THEN /\ rf_pc' = "ub"
              /\ past' = TRUE
              /\ len' = len + bytes_read
              /\ rf_err' = rf_err
       ELSE /\ len' = len + bytes_read
            /\ past' = past
            /\ IF JitLimitHit(len')
                 THEN rf_pc' = "exit" /\ rf_err' = ReadLimitError
                 ELSE rf_pc' = "start" /\ rf_err' = rf_err
  /\ UNCHANGED <<bfvars, jitvars, file_mode, file_size, aotvars, refvars>>

\* ------------------------------------------------------ aot: gen_instructions
\* A block of the generated function: its statements and how it ends; kind is
\* "none" until the block is terminated.  Blocks are named by their position
\* in `blocks`.
NoTerm == [kind |-> "none", a |-> 0, b |-> 0]

Block(name) == [name |-> name, stmts |-> <<>>, term |-> NoTerm]

Terminated(bs, b) == bs[b].term.kind # "none"

\* The locals of gen_instructions as one record; status is "generating" inside
\* the loop, "ok" once it returned, "error" after errx.  The entry block
\* starts with index = 0.
GenInit ==
  [ s |-> 1,
    blocks |-> << [Block("entry") EXCEPT !.stmts = <<"zero_index">>] >>,
    current_block |-> 1, stack |-> <<>>, misuse |-> FALSE,
    status |-> "generating", err |-> "" ]

\* gcc_jit_block_add_assignment, _add_assignment_op, _add_eval on current_block.
AddStmt(st, code) ==
  IF Terminated(st.blocks, st.current_block)
    THEN [st EXCEPT !.misuse = TRUE]
    ELSE [st EXCEPT !.blocks[st.current_block].stmts = Append(@, code)]

\* gcc_jit_block_end_with_jump, _with_conditional, _with_void_return.
EndBlock(st, b, term) ==
  IF Terminated(st.blocks, b)
    THEN [st EXCEPT !.misuse = TRUE]
    ELSE [st EXCEPT !.blocks[b].term = term]

Jump(to) == [kind |-> "jump", a |-> to, b |-> 0]

\* gcc_jit_block_end_with_conditional(block, cond, on_true, on_false) with
\* cond the comparison tape[index] == 0.
IfZero(on_true, on_false) == [kind |-> "cond", a |-> on_true, b |-> on_false]

Return == [kind |-> "return", a |-> 0, b |-> 0]

NewBlock(st, name) == [st EXCEPT !.blocks = Append(@, Block(name))]

AotContinueInCond(stack) == StackTop(stack).start

\* current_block = TOP_END(jmp_stack) of the ']' case.
AotContinue(stack) == StackTop(stack).end

AotOpen(st) ==
  LET loop_cond == Len(st.blocks) + 1
      loop_body == Len(st.blocks) + 2
      loop_end == Len(st.blocks) + 3
      st1 == NewBlock(NewBlock(NewBlock(st, "loop_cond"), "loop_body"), "loop_end")
      st2 == EndBlock(st1, st.current_block, Jump(loop_cond))
      st3 == EndBlock(st2, loop_cond, IfZero(loop_end, loop_body))
      st4 == [st3 EXCEPT !.current_block = loop_body]
  IN  IF StackFull(st.stack)
        THEN Fail(st4, "Nested loops exceeded stack size")
        ELSE [st4 EXCEPT !.stack = Append(@, [start |-> loop_cond, end |-> loop_end])]

AotClose(st) ==
  IF IS_EMPTY_STACK(st.stack)
    THEN Fail(st, "Missing opening '['")
    ELSE LET st1 == EndBlock(st, st.current_block, Jump(StackTop(st.stack).start))
         IN  [st1 EXCEPT !.current_block = AotContinue(st.stack),
                         !.stack = StackPop(@)]

GenSwitch(st, ch) ==
  CASE ch = ">" -> AddStmt(st, "inc_index")
    [] ch = "<" -> AddStmt(st, "dec_index")
    [] ch = "+" -> AddStmt(st, "inc_cell")
    [] ch = "-" -> AddStmt(st, "dec_cell")
    [] ch = "." -> AddStmt(st, "putchar")
    [] ch = "," -> AddStmt(st, "getchar")
    [] ch = "[" -> AotOpen(st)
    [] ch = "]" -> AotClose(st)
    [] OTHER -> st

\* After the loop: the missing-closing-bracket test and the void return.
GenEnd(st) ==
  IF ~IS_EMPTY_STACK(st.stack)
    THEN Fail(st, "Missing closing ']'")
    ELSE [EndBlock(st, st.current_block, Return) EXCEPT !.status = "ok"]

\* One iteration of gen_instructions' while ((ch = *s++)), or the code after it.
GenStep(src, st) ==
  LET ch == CharAt(src, st.s)
      st0 == [st EXCEPT !.s = @ + 1]
  IN  IF ch = NUL THEN GenEnd(st0) ELSE GenSwitch(st0, ch)

\* ----------------------------------------------------------------- aot: run
\* What the tape local of the emitted main may hold: it has no initialiser,
\* so its cells are whatever the stack held.
GarbageTapes == { ZeroTape, (1 :> Garbage), (1 :> Garbage) @@ (2 :> Garbage) }

\* uint8_t tape[TAPE_SIZE] = { 0 }; fn(tape); of the -e branch.
InProcessTapes == { ZeroTape }

\* The index of the array access whose address the emitted main passes.
EmittedMainCell == 1

AotIdle ==
  /\ aot_pc = "idle"
  /\ interpret = FALSE
  /\ aot_s = GenInit.s
  /\ blocks = GenInit.blocks
  /\ current_block = GenInit.current_block
  /\ aot_stack = GenInit.stack
  /\ misuse = GenInit.misuse
  /\ aot_err = ""
  /\ aot_exit = -1
  /\ aot_tape = ZeroTape
  /\ aot_base = 0
  /\ index = 0
  /\ aot_at = [b |-> 1, k |-> 1]
  /\ aot_output = <<>>
  /\ aot_rd = 0

GenState ==
  [ s |-> aot_s, blocks |-> blocks, current_block |-> current_block,
    stack |-> aot_stack, misuse |-> misuse, status |-> "generating", err |-> "" ]

\* main's call of gen_instructions, one loop iteration at a time.
AotGen ==
  /\ aot_pc = "gen"
  /\ LET n == GenStep(source, GenState)
     IN  /\ aot_s' = n.s
         /\ blocks' = n.blocks
         /\ current_block' = n.current_block
         /\ aot_stack' = n.stack
         /\ misuse' = n.misuse
         /\ aot_err' = n.err
         /\ aot_pc' = CASE n.status = "generating" -> "gen"
                        [] n.status = "ok" -> "generated"
                        [] OTHER -> "exit"
         /\ aot_exit' = IF n.status = "error" THEN EXIT_FAILURE ELSE aot_exit
  /\ UNCHANGED <<bfvars, jitvars, filevars, interpret, aotrunvars, refvars>>

\* The generated function is called: by aot itself on a zeroed tape with -e,
\* else by the main emitted into the executable, on its tape local.
AotCall ==
  /\ aot_pc = "generated"
  /\ aot_pc' = "run"
  /\ IF interpret
       THEN aot_tape' \in InProcessTapes /\ aot_base' = 0
       ELSE aot_tape' \in GarbageTapes /\ aot_base' = EmittedMainCell
  /\ index' = 0
  /\ aot_at' = [b |-> 1, k |-> 1]
  /\ UNCHANGED <<bfvars, jitvars, filevars, interpret, genvars, aot_err, aot_exit,
                 aot_output, aot_rd, refvars>>

\* A step of the generated function: the new tape, index, position and streams.
AotGo(pc1, tape1, index1, at1, out1, in1) ==
  /\ aot_pc' = pc1
  /\ aot_tape' = tape1
  /\ index' = index1
  /\ aot_at' = at1
  /\ aot_output' = out1
  /\ stdin' = in1.bytes
  /\ stdin_eof' = in1.ended
  /\ aot_rd' = in1.n
  /\ UNCHANGED <<bfown, jitvars, filevars, interpret, genvars, aot_err, aot_exit,
                 aot_base, refvars>>

AotIn == [bytes |-> stdin, ended |-> stdin_eof, n |-> aot_rd]

\* The tape cell tape[index] of the generated function names.
AotCell == aot_base + index

\* A statement that reads or writes tape[index]: outside the tape array the
\* access is undefined behaviour.
AotAccess(step) ==
  IF AotCell < 0 \/ AotCell >= TAPE_SIZE
    THEN AotGo("ub", aot_tape, index, aot_at, aot_output, AotIn)
  ELSE IF AotCell > MaxPtr
    THEN AotGo("cut", aot_tape, index, aot_at, aot_output, AotIn)
  ELSE step

AotNextStmt == [aot_at EXCEPT !.k = @ + 1]

AotStmt(code) ==
  LET v == Cell(aot_tape, AotCell)
  IN  CASE code = "zero_index" ->
             AotGo("run", aot_tape, 0, AotNextStmt, aot_output, AotIn)
        [] code = "inc_index" ->
             AotGo("run", aot_tape, index + 1, AotNextStmt, aot_output, AotIn)
        [] code = "dec_index" ->
             AotGo("run", aot_tape, index - 1, AotNextStmt, aot_output, AotIn)
        [] code = "inc_cell" ->
             AotAccess(AotGo("run", Store(aot_tape, AotCell, ToUChar(v + 1)), index,
                             AotNextStmt, aot_output, AotIn))
        [] code = "dec_cell" ->
             AotAccess(AotGo("run", Store(aot_tape, AotCell, ToUChar(v - 1)), index,
                             AotNextStmt, aot_output, AotIn))
        [] code = "putchar" ->
             AotAccess(IF Len(aot_output) >= MaxOut
                         THEN AotGo("cut", aot_tape, index, aot_at, aot_output, AotIn)
                         ELSE AotGo("run", aot_tape, index, AotNextStmt,
                                    Append(aot_output, ToUChar(v)), AotIn))
        [] code = "getchar" ->
             \E g \in GetChar(stdin, stdin_eof, aot_rd) :
               AotAccess(AotGo("run", Store(aot_tape, AotCell, ToUChar(g.c)), index,
                               AotNextStmt, aot_output, g))

AotTerm(term) ==
  LET v == Cell(aot_tape, AotCell)
  IN  CASE term.kind = "jump" ->
             AotGo("run", aot_tape, index, [b |-> term.a, k |-> 1], aot_output, AotIn)
        [] term.kind = "cond" ->
             AotAccess(AotGo("run", aot_tape, index,
                             [b |-> IF v = 0 THEN term.a ELSE term.b, k |-> 1],
                             aot_output, AotIn))
        [] term.kind = "return" ->
             /\ aot_pc' = "exit"
             /\ aot_exit' = 0
             /\ UNCHANGED <<bfvars, jitvars, filevars, interpret, genvars, aot_err,
                            aotrunvars, refvars>>
        [] OTHER -> AotGo("ub", aot_tape, index, aot_at, aot_output, AotIn)

\* One statement, or the terminator, of the block the generated function is in.
AotRun ==
  /\ aot_pc = "run"
  /\ LET blk == blocks[aot_at.b]
     IN  IF aot_at.k <= Len(blk.stmts)
           THEN AotStmt(blk.stmts[aot_at.k])
           ELSE AotTerm(blk.term)

\* The number of '[' minus the number of ']' among the first n characters.
Depth(src, n) ==
  Cardinality({j \in 1..n : src[j] = "["}) - Cardinality({j \in 1..n : src[j] = "]"})

Balanced(src) ==
  /\ Depth(src, Len(src)) = 0
  /\ \A n \in 1..Len(src) : Depth(src, n) >= 0

\* ------------------------------------------------- the reference interpreter
\* The unoptimised interpreter the IR is compared with: one step per source
\* character, cells of 8 bits that wrap, a zeroed tape of TAPE_SIZE cells, the
\* end of file read as 0xFF.  It is run on bracket-balanced sources only.
\* The index of the ']' that closes the '[' at index k, and of the '[' that
\* the ']' at index k closes.
MatchFwd(src, k) ==
  LET c == { j \in (k + 1)..Len(src) : Depth(src, j) = Depth(src, k - 1) }
  IN  CHOOSE j \in c : \A x \in c : j <= x

MatchBck(src, k) ==
  LET c == { j \in 1..(k - 1) : Depth(src, j - 1) = Depth(src, k) }
  IN  CHOOSE j \in c : \A x \in c : j >= x

RefIdle ==
  /\ first = "none"
  /\ ref_pc = "idle"
  /\ ref_ip = 1
  /\ ref_tape = ZeroTape
  /\ ref_ptr = 0
  /\ ref_output = <<>>
  /\ ref_rd = 0

RefGo(pc1, tape1, ptr1, ip1, out1, in1) ==
  /\ ref_pc' = pc1
  /\ ref_tape' = tape1
  /\ ref_ptr' = ptr1
  /\ ref_ip' = ip1
  /\ ref_output' = out1
  /\ stdin' = in1.bytes
  /\ stdin_eof' = in1.ended
  /\ ref_rd' = in1.n
  /\ UNCHANGED <<bfown, jitvars, filevars, aotvars, first>>

RefIn == [bytes |-> stdin, ended |-> stdin_eof, n |-> ref_rd]

\* A step that reads or writes the cell under the pointer.
RefAccess(step) ==
  IF ref_ptr < 0 \/ ref_ptr >= TAPE_SIZE
    THEN RefGo("ub", ref_tape, ref_ptr, ref_ip, ref_output, RefIn)
  ELSE IF ref_ptr > MaxPtr
    THEN RefGo("cut", ref_tape, ref_ptr, ref_ip, ref_output, RefIn)
  ELSE step

\* One step of the reference interpreter: the character at ref_ip.
RefStep ==
  /\ ref_pc = "run"
  /\ LET ch == CharAt(source, ref_ip)
         v == Cell(ref_tape, ref_ptr)
         next == ref_ip + 1
     IN  CASE ch = NUL ->
                RefGo("exit", ref_tape, ref_ptr, ref_ip, ref_output, RefIn)
           [] ch = ">" ->
                RefGo("run", ref_tape, ref_ptr + 1, next, ref_output, RefIn)
           [] ch = "<" ->
                RefGo("run", ref_tape, ref_ptr - 1, next, ref_output, RefIn)
           [] ch = "+" ->
                RefAccess(RefGo("run", Store(ref_tape, ref_ptr, (v + 1) % 256), ref_ptr,
                                next, ref_output, RefIn))
           [] ch = "-" ->
                RefAccess(RefGo("run", Store(ref_tape, ref_ptr, (v - 1) % 256), ref_ptr,
                                next, ref_output, RefIn))
           [] ch = "." ->
                RefAccess(IF Len(ref_output) >= MaxOut
                            THEN RefGo("cut", ref_tape, ref_ptr, ref_ip, ref_output,
                                       RefIn)
                            ELSE RefGo("run", ref_tape, ref_ptr, next,
                                       Append(ref_output, v), RefIn))
           [] ch = "," ->
                \E g \in GetChar(stdin, stdin_eof, ref_rd) :
                  RefAccess(RefGo("run", Store(ref_tape, ref_ptr, g.c % 256), ref_ptr,
                                  next, ref_output, g))
           [] ch = "[" ->
                RefAccess(RefGo("run", ref_tape, ref_ptr,
                                IF v = 0 THEN MatchFwd(source, ref_ip) + 1 ELSE next,
                                ref_output, RefIn))
           [] ch = "]" ->
                RefAccess(RefGo("run", ref_tape, ref_ptr,
                                IF v # 0 THEN MatchBck(source, ref_ip) + 1 ELSE next,
                                ref_output, RefIn))
           [] OTHER ->
                RefGo("run", ref_tape, ref_ptr, next, ref_output, RefIn)

\* How a run ended: "exit" at the end of the program, "ub" at an access
\* outside the tape, "cut" where the exploration stops.
Ends == {"exit", "ub", "cut"}

\* The reference is run after the interpreter's run ended.
RefAfterBf ==
  /\ first = "bf"
  /\ ref_pc = "idle"
  /\ pc \in Ends /\ err = ""
  /\ ref_pc' = "run"
  /\ UNCHANGED <<bfvars, jitvars, filevars, aotvars, first, refrunvars>>

\* The interpreter is run after the reference ended.
BfAfterRef ==
  /\ first = "ref"
  /\ pc = "idle"
  /\ ref_pc \in Ends
  /\ pc' = "parse"
  /\ UNCHANGED <<source, parsevars, err, exit_code, strict, runvars, jitvars, filevars,
                 aotvars, refvars>>

\* ---------------------------------------------------------- specifications
\* The interpreter alone, built without the strict checks.
Init == InitBf /\ strict = FALSE /\ JitIdle /\ FileIdle /\ AotIdle /\ RefIdle

Next == Parse \/ CallRun \/ Run \/ Seek

vars == <<bfvars, jitvars, filevars, aotvars, refvars>>

Spec == Init /\ [][Next]_vars

\* The interpreter on the scenario programs, scheduled until it stops.
InitScenario ==
  /\ source \in ScenarioSources
  /\ InitBf /\ strict = FALSE /\ JitIdle /\ FileIdle /\ AotIdle /\ RefIdle

SpecScenario == InitScenario /\ [][Next]_vars /\ WF_vars(Next)

\* The interpreter built with _BF_STRICT_CHECKS.
InitStrict == InitBf /\ strict = TRUE /\ JitIdle /\ FileIdle /\ AotIdle /\ RefIdle

SpecStrict == InitStrict /\ [][Next]_vars

\* The interpreter, then the jit on the same file and the same stdin.
NextJit == Parse \/ CallRun \/ Run \/ Seek \/ JitMain \/ JitCompile \/ JitCall \/ JitRun

SpecJit == Init /\ [][NextJit]_vars

\* The interpreter is not run.
BfIdle ==
  /\ s = ParseInit.s
  /\ prev_token = ParseInit.prev_token
  /\ offset = ParseInit.offset
  /\ program = ParseInit.program
  /\ jmp_stack = ParseInit.jmp_stack
  /\ origin = ParseInit.origin
  /\ pc = "idle"
  /\ err = ""
  /\ exit_code = -1
  /\ strict = FALSE
  /\ trapped = FALSE
  /\ tape = ZeroTape
  /\ i = 0
  /\ p = 0
  /\ output = <<>>
  /\ stdin = <<>>
  /\ stdin_eof = FALSE
  /\ rd = 0

\* aot is started on a source, with or without -e.
AotStart ==
  /\ aot_pc = "gen"
  /\ interpret \in BOOLEAN
  /\ aot_s = GenInit.s
  /\ blocks = GenInit.blocks
  /\ current_block = GenInit.current_block
  /\ aot_stack = GenInit.stack
  /\ misuse = GenInit.misuse
  /\ aot_err = ""
  /\ aot_exit = -1
  /\ aot_tape = ZeroTape
  /\ aot_base = 0
  /\ index = 0
  /\ aot_at = [b |-> 1, k |-> 1]
  /\ aot_output = <<>>
  /\ aot_rd = 0

\* Either the interpreter or aot is run on a source.
InitAot ==
  \/ Init
  \/ source \in AotSources /\ BfIdle /\ JitIdle /\ FileIdle /\ AotStart /\ RefIdle

NextAot == Parse \/ CallRun \/ Run \/ Seek \/ AotGen \/ AotCall \/ AotRun

SpecAot == InitAot /\ [][NextAot]_vars

\* The interpreter and the reference interpreter, one after the other in
\* either order, on a bracket-balanced source and the same stdin, each
\* scheduled until it stops.
RefSources ==
  { src \in UNION {[1..n -> Alphabet] : n \in 0..MaxRefLen}
             \cup ScenarioSources \cup DeepSources \cup LongRuns : Balanced(src) }

InitRef ==
  /\ source \in RefSources
  /\ JitIdle /\ FileIdle /\ AotIdle
  /\ ref_ip = 1
  /\ ref_tape = ZeroTape
  /\ ref_ptr = 0
  /\ ref_output = <<>>
  /\ ref_rd = 0
  /\ \/ first = "bf" /\ ref_pc = "idle" /\ InitBf /\ strict = FALSE
     \/ first = "ref" /\ ref_pc = "run" /\ BfIdle

NextRef == Parse \/ CallRun \/ Run \/ Seek \/ RefStep \/ RefAfterBf \/ BfAfterRef

SpecRef == InitRef /\ [][NextRef]_vars /\ WF_vars(NextRef)

\* read_file of each program on a file of each size.
InitRead ==
  /\ source = <<>>
  /\ s = ParseInit.s
  /\ prev_token = ParseInit.prev_token
  /\ offset = ParseInit.offset
  /\ program = ParseInit.program
  /\ jmp_stack = ParseInit.jmp_stack
  /\ origin = ParseInit.origin
  /\ pc = "read_file"
  /\ err = ""
  /\ exit_code = -1
  /\ strict = FALSE
  /\ trapped = FALSE
  /\ tape = ZeroTape
  /\ i = 0
  /\ p = 0
  /\ output = <<>>
  /\ stdin = <<>>
  /\ stdin_eof = FALSE
  /\ rd = 0
  /\ JitIdle
  /\ AotIdle
  /\ RefIdle
  /\ file_mode \in FileModes
  /\ file_size \in FileSizes(file_mode)
  /\ rf_pc = "start"
  /\ len = 0
  /\ past = FALSE
  /\ rf_err = ""

NextRead == BfStat \/ BfFread \/ JitRead

SpecRead == InitRead /\ [][NextRead]_vars

\* ================================================================== claims
\* parse returned a program: END is emitted last, and only by a parse that
\* succeeded.
ParsedOk ==
  /\ Len(program.ops) > 0
  /\ program.ops[Len(program.ops)].code = "END"

\* parse is over: it returned, or it stopped the process with errx.
ParseErrors ==
  {"Missing opening '['", "Missing closing ']'", "Nested loops exceeded stack size"}

ParseFailed == pc = "exit" /\ err \in ParseErrors

Indices == 0..(Len(program.ops) - 1)

\* The first index after k that holds a token, 0 if there is none.
RECURSIVE NextSig(_, _)
NextSig(src, k) ==
  IF k >= Len(src) THEN 0
  ELSE IF src[k + 1] \in Tokens THEN k + 1
  ELSE NextSig(src, k + 1)

\* The last index before k that holds a token, 0 if there is none.
RECURSIVE PrevSig(_, _)
PrevSig(src, k) ==
  IF k <= 1 THEN 0
  ELSE IF src[k - 1] \in Tokens THEN k - 1
  ELSE PrevSig(src, k - 1)

\* The net count of '>' minus '<' between the last token before index k that
\* is not a move and index k.
RECURSIVE MovesBefore(_, _)
MovesBefore(src, k) ==
  IF k <= 1 THEN 0
  ELSE CASE src[k - 1] = ">" -> MovesBefore(src, k - 1) + 1
         [] src[k - 1] = "<" -> MovesBefore(src, k - 1) - 1
         [] src[k - 1] \in Tokens -> 0
         [] OTHER -> MovesBefore(src, k - 1)

\* C2 as claimed: after a successful parse, for every JMP_FWD at index k with
\* stored argument t the op at index t - 1 is a JMP_BCK whose argument is
\* k + 1, and for every JMP_BCK at index k with stored argument u the op at
\* index u - 1 is a JMP_FWD whose argument is k + 1.
C2_LinkedAsClaimed ==
  ParsedOk =>
    \A k \in Indices :
      LET op == OpAt(program, k)
      IN  /\ op.code = "JMP_FWD" =>
               /\ op.arg - 1 \in Indices
               /\ OpAt(program, op.arg - 1).code = "JMP_BCK"
               /\ OpAt(program, op.arg - 1).arg = k + 1
          /\ op.code = "JMP_BCK" =>
               /\ op.arg - 1 \in Indices
               /\ OpAt(program, op.arg - 1).code = "JMP_FWD"
               /\ OpAt(program, op.arg - 1).arg = k + 1

\* C2 amended: after a successful parse, for every JMP_FWD at index k with
\* stored argument t the op at index t is a JMP_BCK whose stored argument is
\* k, and for every JMP_BCK at index k with stored argument u the op at index
\* u is a JMP_FWD whose stored argument is k.
C2_Linked ==
  ParsedOk =>
    \A k \in Indices :
      LET op == OpAt(program, k)
      IN  /\ op.code = "JMP_FWD" =>
               /\ op.arg \in Indices
               /\ OpAt(program, op.arg).code = "JMP_BCK"
               /\ OpAt(program, op.arg).arg = k
          /\ op.code = "JMP_BCK" =>
               /\ op.arg \in Indices
               /\ OpAt(program, op.arg).code = "JMP_FWD"
               /\ OpAt(program, op.arg).arg = k

\* A parsed program with a loop nested in a loop.
C2_Witness ==
  /\ ParsedOk
  /\ \E k \in Indices :
       /\ OpAt(program, k).code = "JMP_FWD"
       /\ k + 1 \in Indices
       /\ OpAt(program, k + 1).code = "JMP_FWD"

\* C3: '>' and '<' emit no op: every op but END comes from a token that is
\* not a move, each from a token of its own, and its offset is the net count
\* of '>' minus '<' since the previous token that is not a move (for a
\* ZEROSEEK, before its '['); while parse scans, the pending offset is that
\* count at the cursor, so it is 0 right after every token that is not a move.
C3_OffsetCoalescing ==
  /\ pc = "parse" => offset = MovesBefore(source, s)
  /\ ParsedOk =>
       /\ Len(origin) = Len(program.ops)
       /\ \A k \in 1..(Len(program.ops) - 1) :
            /\ origin[k] \in 1..Len(source)
            /\ source[origin[k]] \in Tokens \ {">", "<"}
            /\ k > 1 => origin[k - 1] < origin[k]
            /\ program.ops[k].offset = MovesBefore(source, origin[k])

\* A parsed program whose ops carry a forward and a backward displacement.
C3_Witness ==
  /\ ParsedOk
  /\ \E k \in Indices : OpAt(program, k).offset > 0
  /\ \E k \in Indices : OpAt(program, k).offset < 0

\* The tokens at and after the '[' at index k are '[', '-', ']', whatever
\* bytes that are not tokens lie between them.
ClearWindow(src, k) ==
  LET m == NextSig(src, k)
      c == IF m = 0 THEN 0 ELSE NextSig(src, m)
  IN  /\ src[k] = "["
      /\ m # 0 /\ src[m] = "-"
      /\ c # 0 /\ src[c] = "]"

\* C4: when parse is at a '[' whose next tokens are '-' and ']' (comment bytes
\* skipped), the step appends exactly one ZERO op with the pending offset,
\* leaves the bracket stack alone and moves the cursor past the closing ']'.
C4_ClearCell ==
  [][ (pc = "parse" /\ CharAt(source, s) = "[" /\ ClearWindow(source, s)) =>
        /\ program'.ops = Append(program.ops, Op("ZERO", 0, offset))
        /\ jmp_stack' = jmp_stack
        /\ s' = NextSig(source, NextSig(source, s)) + 1
        /\ pc' = "parse" ]_vars

\* C5: when parse is at a ']' and the last op is a JMP_FWD, nothing but moves
\* and comment bytes lies between that '[' and the ']', and the step replaces
\* the JMP_FWD by one ZEROSEEK whose argument is the net move count of the
\* body and whose offset is the JMP_FWD's; the JMP_FWD was the top of the
\* bracket stack and is popped; no JMP_BCK is appended.
C5_ScanLoop ==
  [][ ( /\ pc = "parse"
        /\ CharAt(source, s) = "]"
        /\ last_op(program) >= 0
        /\ OpAt(program, last_op(program)).code = "JMP_FWD" ) =>
        LET fwd == OpAt(program, last_op(program))
            open == origin[Len(origin)]
        IN  /\ \A j \in (open + 1)..(s - 1) : source[j] \in {">", "<", "c"}
            /\ program'.ops =
                 Append(SubSeq(program.ops, 1, Len(program.ops) - 1),
                        Op("ZEROSEEK", MovesBefore(source, s), fwd.offset))
            /\ jmp_stack # <<>>
            /\ StackTop(jmp_stack) = last_op(program)
            /\ jmp_stack' = StackPop(jmp_stack)
            /\ pc' = "parse" ]_vars

\* A scan loop that steps backwards, entered one cell to the right.
C5_Witness ==
  \E k \in Indices :
    /\ OpAt(program, k).code = "ZEROSEEK"
    /\ OpAt(program, k).arg = -1
    /\ OpAt(program, k).offset = 1

\* a..b is a maximal run of the token t: it starts and ends with t, holds no
\* other token, and the tokens before and after it are not t.
IsRun(src, a, b, t) ==
  /\ src[a] = t
  /\ src[b] = t
  /\ \A j \in a..b : src[j] \in {t, "c"}
  /\ PrevSig(src, a) = 0 \/ src[PrevSig(src, a)] # t
  /\ NextSig(src, b) = 0 \/ src[NextSig(src, b)] # t

RunLength(src, a, b, t) == Cardinality({j \in a..b : src[j] = t})

\* The ops, END aside, emitted by a token of a..b.
OpsOf(a, b) == {m \in 1..(Len(program.ops) - 1) : origin[m] \in a..b}

RunOp(t) == IF t = "+" THEN "ADD" ELSE "MINUS"

\* The '-' at index a is the one that parse consumes with a clear-cell '[':
\* the '[' stands right before it and the next token is ']'.
ClearedMinus(src, a) ==
  /\ a > 1
  /\ src[a - 1] = "["
  /\ src[a] = "-"
  /\ NextSig(src, a) # 0
  /\ src[NextSig(src, a)] = "]"

\* No op other than ADD and MINUS has its argument changed by a run.
OtherOpsUntouched ==
  \A m \in 1..Len(program.ops) :
    /\ program.ops[m].code \in {"ZERO", "PUT", "READ", "END"} => program.ops[m].arg = 0
    /\ program.ops[m].code \in {"ADD", "MINUS"} =>
         /\ source[origin[m]] \in {"+", "-"}
         /\ program.ops[m].code = RunOp(source[origin[m]])

\* C6 as claimed: every maximal run of k '+' (or '-') tokens is parsed into
\* exactly one op, an ADD (or MINUS) with argument k, and changes no other op.
C6_RunLengthAsClaimed ==
  ParsedOk =>
    /\ OtherOpsUntouched
    /\ \A t \in {"+", "-"} : \A a \in 1..Len(source) : \A b \in a..Len(source) :
         IsRun(source, a, b, t) =>
           \E m \in OpsOf(a, b) :
             /\ OpsOf(a, b) = {m}
             /\ program.ops[m].code = RunOp(t)
             /\ program.ops[m].arg = RunLength(source, a, b, t)

\* C6 amended: the same, except for the single '-' of a clear-cell window,
\* which is consumed with its '[' and ']' into the ZERO op and emits no op of
\* its own.
C6_RunLength ==
  ParsedOk =>
    /\ OtherOpsUntouched
    /\ \A t \in {"+", "-"} : \A a \in 1..Len(source) : \A b \in a..Len(source) :
         IsRun(source, a, b, t) =>
           IF a = b /\ ClearedMinus(source, a)
             THEN OpsOf(a, b) = {}
             ELSE \E m \in OpsOf(a, b) :
                    /\ OpsOf(a, b) = {m}
                    /\ program.ops[m].code = RunOp(t)
                    /\ program.ops[m].arg = RunLength(source, a, b, t)

\* A run of three '-' with a comment byte inside it, parsed into MINUS(3).
C6_Witness ==
  /\ ParsedOk
  /\ \E a \in 1..Len(source) : \E b \in a..Len(source) :
       /\ IsRun(source, a, b, "-")
       /\ RunLength(source, a, b, "-") = 3
       /\ b - a = 3
       /\ \E m \in OpsOf(a, b) : program.ops[m].arg = 3

\* parse has just ended: it returned to main, or errx stopped the process.
ParseOver == pc = "parsed" \/ ParseFailed

\* The source up to its last token that is not a move: what is left when the
\* trailing '>', '<' and comment bytes are taken away.
RECURSIVE StripTrail(_)
StripTrail(src) ==
  IF src = <<>> THEN <<>>
  ELSE IF src[Len(src)] \in Tokens \ {">", "<"} THEN src
  ELSE StripTrail(SubSeq(src, 1, Len(src) - 1))

\* C7: a source and the same source without its trailing moves and comment
\* bytes parse alike (the same ops, or the same error); a source with no
\* emitting token parses to exactly [END], and its run ends with exit status 0
\* having written nothing.
C7_TrailingMoves ==
  /\ (ParseOver /\ StripTrail(source) # source) =>
       LET ref == ParseAll(StripTrail(source))
       IN  /\ ref.program.ops = program.ops
           /\ ref.err = err
           /\ (ref.status = "ok") = (pc = "parsed")
  /\ StripTrail(source) = <<>> =>
       /\ pc \in {"parse", "parsed", "run", "exit"}
       /\ pc # "parse" => program.ops = <<Op("END", 0, 0)>>
       /\ output = <<>>
       /\ pc = "exit" => exit_code = 0

\* A parsed source that ends with moves after an op-emitting token.
C7_Witness ==
  /\ pc = "parsed"
  /\ Len(program.ops) > 1
  /\ Len(source) - Len(StripTrail(source)) >= 2
  /\ source[Len(source)] \in {">", "<"}

\* C8: parse never scans past a ']' that closes nothing and returns a program
\* only for a balanced source; the missing-opening error is raised at a ']'
\* met with no '[' open, the missing-closing error at the end of input with a
\* '[' open; a parse error ends the process with a non-zero status before run
\* is called, so nothing is written.
C8_BracketErrors ==
  /\ pc = "parse" => Depth(source, s - 1) >= 0
  /\ ParsedOk => Balanced(source)
  /\ ParseFailed =>
       /\ exit_code # 0
       /\ output = <<>>
       /\ tape = ZeroTape /\ i = 0 /\ p = 0
       /\ ~ParsedOk
       /\ err = "Missing opening '['" =>
            /\ source[s - 1] = "]"
            /\ Depth(source, s - 2) = 0
       /\ err = "Missing closing ']'" =>
            /\ s - 1 > Len(source)
            /\ Depth(source, Len(source)) > 0

\* A source that failed for a ']' with nothing open, after some ops were parsed.
C8_Witness ==
  /\ ParseFailed
  /\ err = "Missing opening '['"
  /\ Len(program.ops) > 1

\* The deepest nesting of the source, every '[' counted.
MaxDepth(src) ==
  LET ds == {Depth(src, n) : n \in 0..Len(src)}
  IN  CHOOSE d \in ds : \A x \in ds : d >= x

\* The '[' at index k starts, and the ']' at index k ends, a clear-cell window
\* as parse recognises it: '[' with '-' right after it and ']' as the next token.
OpensWindow(src, k) ==
  /\ src[k] = "["
  /\ k < Len(src)
  /\ src[k + 1] = "-"
  /\ NextSig(src, k + 1) # 0
  /\ src[NextSig(src, k + 1)] = "]"

ClosesWindow(src, k) ==
  /\ src[k] = "]"
  /\ PrevSig(src, k) > 1
  /\ src[PrevSig(src, k)] = "-"
  /\ src[PrevSig(src, k) - 1] = "["

\* The nesting after the first n characters, clear-cell windows not counted.
Pushed(src, n) ==
  Cardinality({j \in 1..n : src[j] = "[" /\ ~OpensWindow(src, j)})
    - Cardinality({j \in 1..n : src[j] = "]" /\ ~ClosesWindow(src, j)})

TooDeep == "Nested loops exceeded stack size"

\* C9 as claimed: a balanced source nested at most STACK_SIZE deep parses, and
\* a source nested STACK_SIZE + 1 deep, every '[' counted, fails with the
\* nesting-too-deep error.
C9_NestingAsClaimed ==
  ParseOver =>
    /\ (Balanced(source) /\ MaxDepth(source) <= STACK_SIZE) => pc = "parsed"
    /\ MaxDepth(source) >= STACK_SIZE + 1 => (ParseFailed /\ err = TooDeep)

\* C9 amended: a balanced source nested at most STACK_SIZE deep parses, and
\* parse fails with the nesting-too-deep error exactly when the source, with
\* no unmatched ']' before that point, nests STACK_SIZE + 1 deep without
\* counting the '[' of clear-cell windows.
C9_Nesting ==
  ParseOver =>
    /\ (Balanced(source) /\ MaxDepth(source) <= STACK_SIZE) => pc = "parsed"
    /\ (ParseFailed /\ err = TooDeep) <=>
         \E n \in 1..Len(source) :
           /\ Pushed(source, n) = STACK_SIZE + 1
           /\ \A m \in 1..n : Depth(source, m) >= 0

\* The push of bracket STACK_SIZE + 1 stopped the process.
C9_Witness ==
  /\ ParseFailed
  /\ err = TooDeep
  /\ Len(jmp_stack) = STACK_SIZE

\* Both processes ran the program to its end: the interpreter's run returned
\* at END and the generated function returned.
BothCompleted ==
  /\ pc = "exit" /\ exit_code = 0
  /\ jit_pc = "exit" /\ jit_exit = 0

\* C1: for every bracket-balanced program and every stdin, the interpreter
\* (parse, then run) and the jit (compile_bf, then the generated function on a
\* zeroed tape) write the same bytes to stdout, provided no condition of a
\* strict-mode trap was met during the interpreter's run.
C1_SameStdout ==
  (Balanced(source) /\ BothCompleted /\ ~trapped) => jit_output = output

\* read_file is over: it returned the buffer, stopped the process with errx,
\* or stored outside the buffer.
ReadOver == rf_pc \in {"done", "exit", "ub"}

\* C10: a file larger than the program's limit (8 MiB for bf, 1 MiB for jit
\* and aot) is always rejected with the read-limit error, never handed on to
\* parse or compile, whatever sizes the reads return; and no byte is ever
\* stored beyond the buffer.
C10_OversizeRejected ==
  /\ ~past
  /\ (file_size > SizeLimit(file_mode) /\ ReadOver) =>
       (rf_pc = "exit" /\ rf_err = ReadLimitError)

\* The op run is about to execute, and the cell it addresses.
CurOp == OpAt(program, p)

CurCell == i + CurOp.offset

\* run executes an op of the given kind and goes on to the next op.
Executes(code) ==
  /\ pc = "run" /\ p < Len(program.ops) /\ CurOp.code = code
  /\ pc' = "run" /\ p' = p + 1

\* C11: in the default build ADD(n) and MINUS(n) change the addressed cell to
\* (v + n) mod 256 and (v - n) mod 256 for every cell value v and every run
\* length n, 256 and more included; every byte PUT writes is in [0, 255]; and
\* the program '-.' writes the single byte 0xFF.
C11_WrapArithmetic ==
  [][ /\ Executes("ADD") =>
           ToUChar(Cell(tape', CurCell)) = (ToUChar(Cell(tape, CurCell)) + CurOp.arg) % 256
      /\ Executes("MINUS") =>
           ToUChar(Cell(tape', CurCell)) = (ToUChar(Cell(tape, CurCell)) - CurOp.arg) % 256
      /\ \A k \in 1..Len(output') : output'[k] \in 0..255
      /\ (source = <<"-", ".">> /\ pc' = "exit") => output' = <<255>> ]_vars

\* An ADD or MINUS of a run of 256 or more was executed and its cell printed.
C11_Witness ==
  /\ ~strict /\ pc = "exit" /\ exit_code = 0
  /\ OpAt(program, 0).code \in {"ADD", "MINUS"}
  /\ OpAt(program, 0).arg > 256
  /\ output \in {<<1>>, <<255>>}

\* The generated function of aot executes a statement of the given kind.
AotExecutes(code) ==
  /\ aot_pc = "run" /\ aot_pc' = "run"
  /\ aot_at.k <= Len(blocks[aot_at.b].stmts)
  /\ blocks[aot_at.b].stmts[aot_at.k] = code

\* C12: when READ is executed with stdin at end of file (no byte is consumed),
\* the addressed cell becomes 0xFF, in the interpreter and in the code aot
\* generates, at the first such READ and at every later one; the cell is then
\* non-zero and PUT writes it as the byte 0xFF.
C12_ReadAtEof ==
  [][ /\ (Executes("READ") /\ rd' = rd) =>
           /\ ToUChar(Cell(tape', CurCell)) = 255
           /\ Cell(tape', CurCell) # 0
      /\ (AotExecutes("getchar") /\ aot_rd' = aot_rd) =>
           Cell(aot_tape', AotCell) = 255 ]_vars

\* Two READs at end of file, into two cells, and the second cell printed.
C12_Witness ==
  /\ source = <<",", ">", ",", ".">>
  /\ pc = "exit" /\ exit_code = 0
  /\ stdin = <<>> /\ stdin_eof
  /\ Cell(tape, 0) = -1
  /\ output = <<255>>

OnTape(j) == j \in 0..(TAPE_SIZE - 1)

\* run stopped with the out-of-bounds error.
BoundsAbort ==
  pc = "exit" /\ err = "Out-of-bounds memory access" /\ exit_code = EXIT_FAILURE

Abort(msg) == pc = "exit" /\ err = msg /\ exit_code = EXIT_FAILURE

\* C14: in the strict build ADD(n) on a cell holding v stops with the overflow
\* error iff v + n lies above the upper bound of the cell, and MINUS(n) stops
\* with the underflow error iff v - n lies below its lower bound; a result
\* equal to the bound does not trap and is stored.
C14_TrapIffCrossing ==
  [][ (pc = "run" /\ p < Len(program.ops) /\ OnTape(CurCell)) =>
        LET v == Cell(tape, CurCell)
            n == CurOp.arg
        IN  /\ CurOp.code = "ADD" =>
                 /\ Abort("Integer overflow")' <=> v + n > INT8_MAX
                 /\ v + n <= INT8_MAX => Cell(tape', CurCell) = v + n
            /\ CurOp.code = "MINUS" =>
                 /\ Abort("Integer underflow")' <=> v - n < INT8_MIN
                 /\ v - n >= INT8_MIN => Cell(tape', CurCell) = v - n ]_vars

\* run returned at END and main returned 0.
Completed == pc = "exit" /\ exit_code = 0

\* C15 as stated: the scan scenario ends having written the byte 0x04.
C15_ScanWritesFour == (source = ScanProgram /\ Completed) => output = <<4>>

\* C15: the program +++>+++>+++<<[>]+. with an empty stdin terminates and
\* writes exactly one byte: the scan loop stops on the first zero cell, at
\* index 3, which + makes 1 and . prints, so the byte is 0x01.
C15_ScanScenario ==
  [](source = ScanProgram =>
       <>[](Completed /\ output = <<1>> /\ i = 3 /\ Cell(tape, 3) = 1 /\ rd = 0))

C15_Witness ==
  /\ source = ScanProgram /\ Completed
  /\ OpAt(program, 3).code = "ZEROSEEK"
  /\ output = <<1>>

\* The generated function was just called by the main aot emitted into the
\* executable.
EmittedMainCalled ==
  aot_pc = "run" /\ ~interpret /\ aot_at = [b |-> 1, k |-> 1]

\* C16: in ahead-of-time mode the emitted main calls the generated function
\* with the address of cell 0 of a tape whose 30,000 cells are all zero, so
\* that the function has TAPE_SIZE zeroed cells in front of it.
C16_EmittedMainTape ==
  EmittedMainCalled =>
    /\ aot_base = 0
    /\ aot_tape = ZeroTape

\* C17: in the default build, for every bracket-balanced program the data
\* pointer is within [0, TAPE_SIZE) at every read or write of a tape cell.
\* run adds an op's offset, or a scan step, to i only to access tape[i] next,
\* so i is always the index of the latest access.
C17_PointerOnTape == (~strict /\ Balanced(source)) => OnTape(i)

\* The interpreter's run and the reference's have both ended.
BothEnded == pc \in Ends /\ err = "" /\ ref_pc \in Ends

\* The two tapes hold the same bytes.
SameTape ==
  \A j \in DOMAIN tape \cup DOMAIN ref_tape :
    ToUChar(Cell(tape, j)) = Cell(ref_tape, j)

\* What the two runs have in common when both have ended; the pointers are
\* compared after a run to the end of the program, where the reference's is
\* the interpreter's plus the trailing moves parse discarded (the offset
\* parse ended with).
SameRun ==
  BothEnded =>
    /\ ref_pc = pc
    /\ ref_output = output
    /\ ref_rd = rd
    /\ SameTape
    /\ pc = "exit" => (exit_code = 0 /\ ref_ptr = i + offset)

\* The run made first has ended; the run made second has ended, or parse
\* rejected the source.
FirstEnded ==
  \/ first = "bf" /\ pc \in Ends /\ err = ""
  \/ first = "ref" /\ ref_pc \in Ends

SecondEnded == pc \in Ends /\ ref_pc \in Ends

\* C18: for every bracket-balanced source that parse accepts, run on the
\* parsed IR and the reference interpreter on the source, given the same
\* stdin, write the same bytes in the same order, consume the same input and
\* reach the same tape; one ends iff the other does, and in the same way; the
\* final data pointers differ by the discarded trailing moves only.  A
\* balanced source parse rejects is one nested deeper than the bracket stack.
C18_Reference ==
  /\ [](SameRun)
  /\ [](ParseFailed => err = "Nested loops exceeded stack size")
  /\ [](FirstEnded => <>SecondEnded)

\* The copy loop +[->+<]>. was run to its end by both, the reference first.
C18_Witness ==
  /\ first = "ref" /\ BothEnded /\ pc = "exit"
  /\ source = <<"+", "[", "-", ">", "+", "<", "]", ">", ".">>
  /\ output = <<1>> /\ ref_output = <<1>>

\* The characters of the source gen_instructions has consumed.
Consumed == IF aot_s - 1 > Len(source) THEN Len(source) ELSE aot_s - 1

\* gen_instructions returned: main went on to compile or to call the function.
GenReturned == aot_pc \notin {"idle", "gen"} /\ aot_err = ""

\* Which of the sources aot is given are bracket-balanced, and the loop depth
\* after each of their characters; both are tabulated once (@@ builds the
\* table).
BalancedAot == [src \in AotSources |-> Balanced(src)] @@ <<>>

DepthAt ==
  [src \in AotSources |-> ([n \in 0..Len(src) |-> Depth(src, n)] @@ <<>>)] @@ <<>>

\* The index of the '[' that the ']' at index k closes.
OpenerOf(src, k) ==
  LET d == DepthAt[src]
      c == { j \in 1..(k - 1) : d[j - 1] = d[k] }
  IN  CHOOSE j \in c : \A x \in c : j >= x

\* The loop_cond block the '[' at index k of the source created: the j-th '['
\* creates loop_cond, loop_body and loop_end right after the blocks of the
\* first j - 1.
LoopCond(src, k) == 3 * Cardinality({j \in 1..k : src[j] = "["}) - 1

\* The blocks are the entry block and one loop_cond, loop_body, loop_end per
\* consumed '['; every loop_cond branches to its loop_end when the cell is
\* zero and to its loop_body otherwise.
LoopBlocks ==
  /\ blocks[1].name = "entry"
  /\ Len(blocks) = 1 + 3 * Cardinality({k \in 1..Consumed : source[k] = "["})
  /\ \A b \in 1..Len(blocks) :
       b % 3 = 2 =>
         /\ blocks[b].name = "loop_cond"
         /\ blocks[b + 1].name = "loop_body"
         /\ blocks[b + 2].name = "loop_end"
         /\ blocks[b].term = IfZero(b + 2, b + 1)

\* The iteration of gen_instructions that consumes a ']': it ends the block
\* that was current with a jump to the loop_cond of the matching '[' and goes
\* on in that loop's loop_end.
CloseStep ==
  (aot_pc = "gen" /\ aot_s' = aot_s + 1 /\ CharAt(source, aot_s) = "]"
     /\ BalancedAot[source]) =>
    LET loop_cond == LoopCond(source, OpenerOf(source, aot_s))
    IN  /\ ~Terminated(blocks, current_block)
        /\ blocks'[current_block].term = Jump(loop_cond)
        /\ current_block' = loop_cond + 2
        /\ blocks[current_block'].name = "loop_end"
        /\ aot_pc' = "gen"

\* C19: in the AOT generator, for every bracket-balanced source, no block is
\* terminated twice and no statement is added to a terminated block, and when
\* gen_instructions returns every created block is terminated; each '[' ends
\* its loop_cond with a branch to loop_end on a zero cell and to loop_body
\* otherwise; each ']' ends the current block with a jump to the loop_cond of
\* its matching '[' and continues in that loop's loop_end; while generating,
\* the block-pair stack holds one pair per open loop, so it is empty exactly
\* when no loop is open.
C19_AotBlocks ==
  /\ []((aot_pc # "idle" /\ BalancedAot[source]) =>
          /\ ~misuse
          /\ aot_pc \in {"gen", "generated"} => LoopBlocks
          /\ GenReturned => \A b \in 1..Len(blocks) : Terminated(blocks, b)
          /\ aot_pc = "gen" =>
                /\ Len(aot_stack) = DepthAt[source][Consumed]
                /\ IS_EMPTY_STACK(aot_stack) <=> DepthAt[source][Consumed] = 0
                /\ ~Terminated(blocks, current_block))
  /\ [][CloseStep]_vars

\* The copy loop +[->+<]>. was generated: entry jumps to loop_cond, loop_cond
\* branches, loop_body jumps back and loop_end returns.
C19_Witness ==
  /\ aot_pc = "generated" /\ ~misuse
  /\ source = <<"+", "[", "-", ">", "+", "<", "]", ">", ".">>
  /\ Len(blocks) = 4
  /\ blocks[1].term = Jump(2)
  /\ blocks[2].term = IfZero(4, 3)
  /\ blocks[3].term = Jump(2)
  /\ blocks[4].term = Return
  /\ IS_EMPTY_STACK(aot_stack)

\* parse returned a program: main is about to call run, or run was called.
Parsed == pc \in {"parsed", "run", "seek", "ub", "cut"} \/ Completed

\* The index of END, the last op of the program.
LastIndex == Len(program.ops) - 1

\* Every JMP_FWD holds the index of a later JMP_BCK, which holds the index of
\* that JMP_FWD; the cursor after a taken jump and the loop's p++ is the index
\* of an op.
JumpsLinked ==
  \A k \in 0..LastIndex :
    LET op == OpAt(program, k)
    IN  /\ op.code = "JMP_FWD" =>
             /\ op.arg \in (k + 1)..(LastIndex - 1)
             /\ OpAt(program, op.arg).code = "JMP_BCK"
             /\ OpAt(program, op.arg).arg = k
             /\ JumpTo(op.arg) + 1 \in 0..LastIndex
        /\ op.code = "JMP_BCK" =>
             /\ op.arg \in 0..(k - 1)
             /\ OpAt(program, op.arg).code = "JMP_FWD"
             /\ OpAt(program, op.arg).arg = k
             /\ JumpTo(op.arg) + 1 \in 0..LastIndex

\* C20: in the IR of a successfully parsed source END occurs exactly once, as
\* the last op; every stored jump argument is the index of an op of the
\* program; during run the instruction cursor is always an index in
\* [0, n - 1], a taken jump followed by the increment included; and run
\* returns only with the cursor on END.
C20_CursorInProgram ==
  Parsed =>
    /\ Len(program.ops) >= 1
    /\ \A k \in 0..LastIndex : OpAt(program, k).code = "END" <=> k = LastIndex
    /\ JumpsLinked
    /\ p \in 0..LastIndex
    /\ Completed => OpAt(program, p).code = "END"
    /\ pc = "seek" => OpAt(program, p).code = "ZEROSEEK"

\* In [+] on a zeroed tape the JMP_FWD was taken and the increment put the
\* cursor on END, the last op.
C20_Witness ==
  /\ pc = "run" /\ source = <<"[", "+", "]">>
  /\ OpAt(program, 0).code = "JMP_FWD" /\ OpAt(program, 0).arg = 2
  /\ p = 3 /\ p = LastIndex

\* parse is about to take the run-length branch: the character under the
\* cursor equals the previous significant token and is '+' or '-'.
RunLengthBranch ==
  /\ pc = "parse"
  /\ CharAt(source, s) = prev_token
  /\ is_repeatable_token(prev_token)

\* The op a run of ch is folded into.
RunCode(ch) == IF ch = "+" THEN "ADD" ELSE "MINUS"

\* The last op is the one the run under the cursor began with: it was emitted
\* for a character equal to ch, only that character and comments lie between
\* there and the cursor, and its argument counts the run so far.
LastOpIsThisRun(ch) ==
  LET k == last_op(program)
      from == origin[k + 1]
  IN  /\ OpAt(program, k).code = RunCode(ch)
      /\ source[from] = ch
      /\ \A j \in from..(s - 1) : source[j] = ch \/ ~is_valid_token(source[j])
      /\ OpAt(program, k).arg = Cardinality({j \in from..(s - 1) : source[j] = ch})

\* C21: whenever parse takes the run-length branch, the program is non-empty
\* and its last op is the ADD (for '+') or MINUS (for '-') emitted for that
\* same run, so last_op does not return NULL there and the increment is not
\* applied to an op of another kind; parse never dereferences NULL.
C21_RunLengthBranch ==
  /\ RunLengthBranch =>
       /\ last_op(program) >= 0
       /\ Len(origin) = Len(program.ops)
       /\ LastOpIsThisRun(prev_token)
  /\ pc = "ub" => (Len(program.ops) >= 1 /\ OpAt(program, last_op(program)).code = "END")

\* In [-]-- the clear loop became ZERO, the first '-' after it emitted a
\* MINUS, and the second '-' is about to take the run-length branch.
C21_Witness ==
  /\ RunLengthBranch
  /\ source = <<"[", "-", "]", "-", "-">> /\ s = 5
  /\ Len(program.ops) = 2
  /\ OpAt(program, 0).code = "ZERO"
  /\ OpAt(program, 1) = Op("MINUS", 1, 0)
====
